---- MODULE Spec2Model ----
(***************************************************************************)
(* A model of the Touchstone reader of scirust-rf (src/src/touchstone.rs), *)
(* of the Network built from it (src/src/network.rs) and of Frequency      *)
(* (src/src/frequency.rs).                                                 *)
(*                                                                         *)
(* Touchstone::new(path) inspects the extension of the path, then reads    *)
(* the file line by line, dispatching every line on its text, and finally  *)
(* reshapes the accumulated complex values into a tensor.  Network::       *)
(* from_snp wraps the frequencies and the tensor of a completed call.      *)
(*                                                                         *)
(* Text is modelled by what the code looks at.  A line is a record         *)
(*   [toks |-> the whitespace separated tokens before the first '!',       *)
(*    cmts |-> the texts that follow each '!' of the line, in order]       *)
(* and a token is a record [w, v, uc]: w = "num" and v the value for a     *)
(* numeric literal, otherwise w is the lower-case spelling of the word and *)
(* uc tells that the file spells it with upper-case letters.  Numbers of   *)
(* the option line and of the reference list are written in thousandths    *)
(* (50.0 is 50000, 15.063 is 15063), the integer of a count directive as   *)
(* itself, and the tokens of a generated data file carry their position in *)
(* the file: the code never branches on the value of a data token.  Lines  *)
(* start at column 0.  An extension is the sequence of its characters.     *)
(***************************************************************************)
EXTENDS Integers, Sequences, FiniteSets, TLC

VARIABLES
    path,                  \* input: [some, chars], the extension of the path
    file,                  \* input: the lines of the file
    pc,                    \* "ext", "loop", "reshape", "done"; "idle": no call
    pos,                   \* index of the next line buf_reader delivers
    rank,                  \* touchstone.rank
    options_read,          \* the local flag options_read
    options,               \* touchstone.options
    version,               \* touchstone.version
    comments,              \* touchstone.comments
    num_ports,             \* touchstone.num_ports
    num_freq_points,       \* touchstone.num_freq_points
    num_noise_freq_points, \* touchstone.num_noise_freq_points
    reference,             \* touchstone.reference
    freqs,                 \* touchstone.freqs
    temp_s_params,         \* the local flat buffer temp_s_params
    s_params,              \* touchstone.s_params: [shape, data]
    result,                \* "none", "Ok", "Err", "panic"
    exit,                  \* the statement that ended the call
    network,               \* what Network::from_snp gives: [st, f, s, z0]
    frequency              \* a call of a Frequency constructor: [call, val]

vars == <<path, file, pc, pos, rank, options_read, options, version, comments,
          num_ports, num_freq_points, num_noise_freq_points, reference, freqs,
          temp_s_params, s_params, result, exit, network, frequency>>

\* Everything of the Touchstone value and the loop's locals except pc, pos,
\* result and exit.
fields == <<rank, options_read, options, version, comments, num_ports,
            num_freq_points, num_noise_freq_points, reference, freqs,
            temp_s_params, s_params>>

-----------------------------------------------------------------------------
(* Bounds of the inputs. *)

MaxRank == 2      \* ranks 1..MaxRank are named by the .s<N>p extensions
MaxRows == 3      \* data rows of a generated data file
MaxRecs == 2      \* frequency records of a split / flattened file
MaxLines == 2     \* lines of a file of mixed lines
MaxOptLines == 3  \* lines of a file around option lines
MaxRefLines == 3  \* lines of a file around a [reference] directive
MaxPhaseLines == 3  \* lines of a file of comments, option lines and [end]

-----------------------------------------------------------------------------
(* Tokens and lines. *)

Num(n) == [w |-> "num", v |-> n, uc |-> FALSE]
W(s) == [w |-> s, v |-> 0, uc |-> FALSE]
U(s) == [w |-> s, v |-> 0, uc |-> TRUE]

\* glue: the second token follows the first without whitespace ("#ghz",
\* "[number of ports]4").  bare: nothing follows the last token of toks,
\* neither whitespace nor a line terminator (the last line of a file without
\* a final newline, or a '!' that follows directly).
L(toks) == [toks |-> toks, cmts |-> <<>>, glue |-> FALSE, bare |-> FALSE]
LC(toks, cmts) == [toks |-> toks, cmts |-> cmts, glue |-> FALSE, bare |-> FALSE]
LG(toks, bare) == [toks |-> toks, cmts |-> <<>>, glue |-> TRUE, bare |-> bare]

None == [some |-> FALSE, val |-> <<>>]
NoneInt == [some |-> FALSE, val |-> 0]
Some(x) == [some |-> TRUE, val |-> x]

\* String::to_lowercase on a token and on a line.
LowerTok(t) == [t EXCEPT !.uc = FALSE]

to_lowercase(line) ==
    [line EXCEPT
        !.toks = [i \in 1..Len(line.toks) |-> LowerTok(line.toks[i])],
        !.cmts = [i \in 1..Len(line.cmts) |-> LowerTok(line.cmts[i])]]

\* str::parse::<f64> succeeds on a token.
IsF64(t) == t.w = "num"

-----------------------------------------------------------------------------
(* The extension of the path: touchstone.rs 121-139. *)

starts_with(e, c) == Len(e) > 0 /\ e[1] = c
ends_with(e, c) == Len(e) > 0 /\ e[Len(e)] = c

RECURSIVE trim_start_matches(_, _)
trim_start_matches(e, c) ==
    IF starts_with(e, c) THEN trim_start_matches(Tail(e), c) ELSE e

RECURSIVE trim_end_matches(_, _)
trim_end_matches(e, c) ==
    IF ends_with(e, c) THEN trim_end_matches(SubSeq(e, 1, Len(e) - 1), c) ELSE e

Digits == <<"0", "1", "2", "3", "4", "5", "6", "7", "8", "9">>
IsDigit(c) == \E d \in 1..10 : Digits[d] = c
DigitVal(c) == (CHOOSE d \in 1..10 : Digits[d] = c) - 1
DigitChar(n) == Digits[n + 1]

RECURSIVE DecimalVal(_)
DecimalVal(ds) ==
    IF ds = <<>> THEN 0
    ELSE 10 * DecimalVal(SubSeq(ds, 1, Len(ds) - 1)) + DigitVal(ds[Len(ds)])

\* str::parse::<usize>: an optional '+' and then one or more digits.
parse_usize(e) ==
    LET ds == IF starts_with(e, "+") THEN Tail(e) ELSE e
    IN  IF ds # <<>> /\ \A i \in 1..Len(ds) : IsDigit(ds[i])
        THEN [ok |-> TRUE, val |-> DecimalVal(ds)]
        ELSE [ok |-> FALSE, val |-> 0]

\* What lines 121-139 decide on the path: "rank" (rank is set to val),
\* "keep" (no extension: rank is left at its default), "Err" or
\* "unimplemented".
ExtensionStartsWithS(e) == starts_with(e, "s") /\ ends_with(e, "p")

ExtensionRank(p) ==
    IF ~p.some THEN [kind |-> "keep", val |-> 0]
    ELSE IF ExtensionStartsWithS(p.val)
         THEN LET r == parse_usize(trim_end_matches(
                                       trim_start_matches(p.val, "s"), "p"))
              IN  IF r.ok THEN [kind |-> "rank", val |-> r.val]
                  ELSE [kind |-> "Err", val |-> 0]
         ELSE IF p.val = <<"t", "s">>
              THEN [kind |-> "unimplemented", val |-> 0]
              ELSE [kind |-> "Err", val |-> 0]

-----------------------------------------------------------------------------
(* TouchstoneOptions and the option line: touchstone.rs 37-91, 244-269,    *)
(* frequency.rs 15-29.                                                     *)

DefaultResistance == 50000

DefaultOptions ==
    [unit |-> "GHz", param_type |-> "S", param_format |-> "MagAngle",
     resistance |-> DefaultResistance]

\* FreqUnit::from_str
FreqUnitFromStr(w) ==
    CASE w = "hz" -> [ok |-> TRUE, val |-> "Hz"]
      [] w = "khz" -> [ok |-> TRUE, val |-> "KHz"]
      [] w = "mhz" -> [ok |-> TRUE, val |-> "MHz"]
      [] w = "ghz" -> [ok |-> TRUE, val |-> "GHz"]
      [] w = "thz" -> [ok |-> TRUE, val |-> "THz"]
      [] OTHER -> [ok |-> FALSE, val |-> "GHz"]

\* ParamType::from_str on the spellings line 258 lets through
ParamTypeFromStr(w) ==
    CASE w = "s" -> "S" [] w = "y" -> "Y" [] w = "z" -> "Z"
      [] w = "g" -> "G" [] w = "h" -> "H"

\* ParamFormat::from_str on the spellings line 252 lets through
ParamFormatFromStr(w) ==
    CASE w = "db" -> "DBAngle" [] w = "ma" -> "MagAngle" [] w = "ri" -> "RealImag"

\* entry.contains("hz"), entry.len() == 2 and entry.len() == 1 on the words
\* the model writes on option lines.  A numeric literal holds no letter, so
\* it takes none of the four branches with an effect.
contains_hz(t) == t.w \in {"hz", "khz", "mhz", "ghz", "thz", "xhz"}
len_is_2(t) == t.w \in {"hz", "db", "ma", "ri", "zz"}
len_is_1(t) == t.w \in {"s", "y", "z", "g", "h", "r", "q", "#", "!"}
in_syzhg(t) == t.w \in {"s", "y", "z", "h", "g"}

\* line.split_whitespace(): a glued second token is part of the first one.
\* The merged token is a word of its own, which only line 246 looks at.
split_whitespace(line) ==
    IF line.glue /\ Len(line.toks) >= 2
    THEN <<W("glued")>> \o SubSeq(line.toks, 3, Len(line.toks))
    ELSE line.toks

\* The loop of lines 247-267 from entry `index` (1-based here) on.
RECURSIVE OptionsLoop(_, _, _)
OptionsLoop(split_line, index, opts) ==
    IF index > Len(split_line) THEN [st |-> "Ok", o |-> opts]
    ELSE LET entry == split_line[index] IN
      IF contains_hz(entry)
      THEN LET u == FreqUnitFromStr(entry.w)
           IN  IF u.ok
               THEN OptionsLoop(split_line, index + 1,
                                [opts EXCEPT !.unit = u.val])
               ELSE [st |-> "Err", o |-> opts]
      ELSE IF len_is_2(entry)
      THEN IF entry.w \in {"db", "ma", "ri"}
           THEN OptionsLoop(split_line, index + 1,
                    [opts EXCEPT !.param_format = ParamFormatFromStr(entry.w)])
           ELSE OptionsLoop(split_line, index + 1, opts)
      ELSE IF in_syzhg(entry) /\ len_is_1(entry)
      THEN OptionsLoop(split_line, index + 1,
                    [opts EXCEPT !.param_type = ParamTypeFromStr(entry.w)])
      ELSE IF entry.w = "r"
      THEN IF index + 1 > Len(split_line)
           THEN [st |-> "panic", o |-> opts]
           ELSE IF IsF64(split_line[index + 1])
           THEN OptionsLoop(split_line, index + 1,
                    [opts EXCEPT !.resistance = split_line[index + 1].v])
           ELSE [st |-> "Err", o |-> opts]
      ELSE OptionsLoop(split_line, index + 1, opts)

\* A decoder whose loop starts one entry late.
parse_options_line_skips_first(line, opts) ==
    OptionsLoop(Tail(split_whitespace(line)), 2, opts)

\* parse_options_line(line, options): split, drop the first token, loop.
parse_options_line(line, opts) ==
    OptionsLoop(Tail(split_whitespace(line)), 1, opts)

-----------------------------------------------------------------------------
(* The line the loop is at, and what lines 156-174 make of it. *)

AtLine == pc = "loop" /\ pos <= Len(file)
line_buf == file[pos]
lowered == to_lowercase(line_buf)

\* line.trim_end().is_empty()
is_blank(line) == line.toks = <<>> /\ line.cmts = <<>>
\* line.rfind('!') is Some
has_bang(line) == line.cmts # <<>>
\* line[idx..].trim_start_matches('!'): the text after the last '!'
last_comment(line) == line.cmts[Len(line.cmts)]

\* The tokens of the text before the last '!': every earlier '!' and the
\* comment after it stay in the text.
RECURSIVE BangToks(_)
BangToks(cs) ==
    IF cs = <<>> THEN <<>> ELSE <<W("!"), Head(cs)>> \o BangToks(Tail(cs))

\* line[..idx]
strip_comment(line) ==
    [toks |-> line.toks \o BangToks(SubSeq(line.cmts, 1, Len(line.cmts) - 1)),
     cmts |-> <<>>,
     glue |-> line.glue,
     bare |-> line.bare /\ Len(line.cmts) = 1]

\* A header phase that stores the comment but forgets the `continue`: the
\* line falls through to the dispatch.
Reaches_without_continue(line) ==
    /\ ~is_blank(line)
    /\ (has_bang(line) /\ options_read) => line.toks # <<>>

\* The line that reaches the dispatch of lines 176-228.
Reaches(line) ==
    /\ ~is_blank(line)
    /\ has_bang(line) => options_read /\ line.toks # <<>>

Effective(line) == IF has_bang(line) THEN strip_comment(line) ELSE line

\* line.starts_with(tag), for a tag or marker the model writes as a token
StartsWith(line, tag) == line.toks # <<>> /\ line.toks[1].w = tag /\ ~line.toks[1].uc

Tags == {"[version]", "[reference]", "[number of ports]",
         "[number of frequencies]", "[number of noise frequencies]",
         "[network data]", "[end]", "#"}

Dispatch(tag) ==
    /\ AtLine
    /\ Reaches(lowered)
    /\ StartsWith(Effective(lowered), tag)

\* The ways the call ends.
Return(res, at) ==
    /\ pc' = "done"
    /\ result' = res
    /\ exit' = at

Continue ==
    /\ pos' = pos + 1
    /\ UNCHANGED <<pc, result, exit>>

-----------------------------------------------------------------------------
(* Touchstone::new, before and after the loop. *)

\* lines 119-139
CheckExtension ==
    /\ pc = "ext"
    /\ LET x == ExtensionRank(path) IN
        CASE x.kind = "rank" ->
               rank' = x.val /\ pc' = "loop" /\ UNCHANGED <<result, exit>>
          [] x.kind = "keep" ->
               pc' = "loop" /\ UNCHANGED <<rank, result, exit>>
          [] x.kind = "Err" ->
               Return("Err", "extension") /\ UNCHANGED rank
          [] x.kind = "unimplemented" ->
               Return("panic", "unimplemented") /\ UNCHANGED rank
    /\ UNCHANGED <<network, frequency, path, file,
                   pos, options_read, options, version, comments,
                   num_ports, num_freq_points, num_noise_freq_points,
                   reference, freqs, temp_s_params, s_params>>

\* A shape check that forgets one axis.
from_shape_vec_ok_two_axes(n, r, len) == len = n * r

\* Array::from_shape_vec((n, r, r), v) is Ok
from_shape_vec_ok(n, r, len) == len = n * r * r

\* lines 230-240
Reshape ==
    /\ pc = "reshape"
    /\ IF from_shape_vec_ok(Len(freqs), rank, Len(temp_s_params))
       THEN /\ s_params' = [shape |-> <<Len(freqs), rank, rank>>,
                            data |-> temp_s_params]
            /\ Return("Ok", "return")
       ELSE /\ Return("Err", "reshape")
            /\ UNCHANGED s_params
    /\ UNCHANGED <<network, frequency, path, file,
                   pos, rank, options_read, options, version,
                   comments, num_ports, num_freq_points, num_noise_freq_points,
                   reference, freqs, temp_s_params>>

-----------------------------------------------------------------------------
(* The loop: one action per way a line is handled. *)

\* lines 149-155: read_line returns 0
EndOfFile ==
    /\ pc = "loop" /\ pos > Len(file)
    /\ pc' = "reshape"
    /\ UNCHANGED <<network, frequency, path, file, pos, result, exit, fields>>

\* lines 158-160
SkipBlank ==
    /\ AtLine /\ is_blank(lowered)
    /\ Continue
    /\ UNCHANGED <<network, frequency, path, file, fields>>

\* lines 162-167
HeaderComment ==
    /\ AtLine /\ ~is_blank(lowered)
    /\ has_bang(lowered) /\ ~options_read
    /\ comments' = Append(comments, last_comment(lowered))
    /\ Continue
    /\ UNCHANGED <<network, frequency, path, file,
                   rank, options_read, options, version, num_ports,
                   num_freq_points, num_noise_freq_points, reference, freqs,
                   temp_s_params, s_params>>

\* lines 168-171
SkipComment ==
    /\ AtLine /\ ~is_blank(lowered)
    /\ has_bang(lowered) /\ options_read /\ lowered.toks = <<>>
    /\ Continue
    /\ UNCHANGED <<network, frequency, path, file, fields>>

\* lines 176-179
Version ==
    /\ Dispatch("[version]")
    /\ version' = IF Tail(Effective(lowered).toks) = <<W("2.0")>>
                  THEN "Two" ELSE version
    /\ Continue
    /\ UNCHANGED <<network, frequency, path, file,
                   rank, options_read, options, comments, num_ports,
                   num_freq_points, num_noise_freq_points, reference, freqs,
                   temp_s_params, s_params>>

\* The tokens of a line as read_line delivers it: nothing is stripped.
RawToks(line) == line.toks \o BangToks(line.cmts)

\* A list parse that loses the last value.
parse_reference_drops_last(list) ==
    IF list # <<>> /\ \A i \in 1..Len(list) : IsF64(list[i])
    THEN [ok |-> TRUE, val |-> [i \in 1..(Len(list) - 1) |-> list[i].v]]
    ELSE [ok |-> FALSE, val |-> <<>>]

\* line 186: split(' ') and parse every piece; an empty text is one empty
\* piece, which is no number.
parse_reference(list) ==
    IF list # <<>> /\ \A i \in 1..Len(list) : IsF64(list[i])
    THEN [ok |-> TRUE, val |-> [i \in 1..Len(list) |-> list[i].v]]
    ELSE [ok |-> FALSE, val |-> <<>>]

\* lines 180-186
Reference ==
    /\ Dispatch("[reference]")
    /\ LET eff == Effective(lowered)
           alone == Len(eff.toks) = 1
           list == IF alone
                   THEN IF pos + 1 <= Len(file) THEN RawToks(file[pos + 1])
                        ELSE <<>>
                   ELSE eff.toks
       IN  IF parse_reference(list).ok
           THEN /\ reference' = Some(parse_reference(list).val)
                /\ pos' = IF alone THEN pos + 2 ELSE pos + 1
                /\ UNCHANGED <<pc, result, exit>>
           ELSE /\ Return("panic", "reference")
                /\ UNCHANGED <<reference, pos>>
    /\ UNCHANGED <<network, frequency, path, file,
                   rank, options_read, options, version, comments,
                   num_ports, num_freq_points, num_noise_freq_points, freqs,
                   temp_s_params, s_params>>

\* line.trim_start_matches(tag).parse::<usize>().ok(): the text after the
\* tag is trimmed of nothing, so it parses only when the digits follow the
\* tag directly and nothing follows them.
parse_count(line) ==
    IF /\ Len(line.toks) = 2 /\ line.glue /\ line.bare
       /\ line.toks[2].w = "num" /\ line.toks[2].v >= 0
    THEN [some |-> TRUE, val |-> line.toks[2].v]
    ELSE NoneInt

\* lines 187-191
NumberOfPorts ==
    /\ Dispatch("[number of ports]")
    /\ num_ports' = parse_count(Effective(lowered))
    /\ Continue
    /\ UNCHANGED <<network, frequency, path, file,
                   rank, options_read, options, version, comments,
                   num_freq_points, num_noise_freq_points, reference, freqs,
                   temp_s_params, s_params>>

\* lines 192-196
NumberOfFrequencies ==
    /\ Dispatch("[number of frequencies]")
    /\ num_freq_points' = parse_count(Effective(lowered))
    /\ Continue
    /\ UNCHANGED <<network, frequency, path, file,
                   rank, options_read, options, version, comments,
                   num_ports, num_noise_freq_points, reference, freqs,
                   temp_s_params, s_params>>

\* lines 197-201
NumberOfNoiseFrequencies ==
    /\ Dispatch("[number of noise frequencies]")
    /\ num_noise_freq_points' = parse_count(Effective(lowered))
    /\ Continue
    /\ UNCHANGED <<network, frequency, path, file,
                   rank, options_read, options, version, comments,
                   num_ports, num_freq_points, reference, freqs,
                   temp_s_params, s_params>>

\* lines 202-205
NetworkData ==
    /\ Dispatch("[network data]")
    /\ Continue
    /\ UNCHANGED <<network, frequency, path, file, fields>>

\* An [end] that is consumed like [network data]: the loop reads on.
End_reads_on ==
    /\ Dispatch("[end]")
    /\ Continue
    /\ UNCHANGED <<network, frequency, path, file, fields>>


\* lines 206-207
End ==
    /\ Dispatch("[end]")
    /\ pc' = "reshape"
    /\ UNCHANGED <<network, frequency, path, file, pos, result, exit, fields>>

\* An option line that raises the flag before it decodes the line.
OptionLine_flag_first ==
    /\ Dispatch("#")
    /\ LET r == parse_options_line(Effective(lowered), options) IN
        /\ options' = r.o
        /\ options_read' = TRUE
        /\ IF r.st = "Ok"
           THEN Continue
           ELSE Return(r.st, "options") /\ UNCHANGED pos
    /\ UNCHANGED <<network, frequency, path, file,
                   rank, version, comments, num_ports,
                   num_freq_points, num_noise_freq_points, reference, freqs,
                   temp_s_params, s_params>>

\* lines 208-210
OptionLine ==
    /\ Dispatch("#")
    /\ LET r == parse_options_line(Effective(lowered), options) IN
        /\ options' = r.o
        /\ IF r.st = "Ok"
           THEN options_read' = TRUE /\ Continue
           ELSE Return(r.st, "options") /\ UNCHANGED <<options_read, pos>>
    /\ UNCHANGED <<network, frequency, path, file,
                   rank, version, comments, num_ports,
                   num_freq_points, num_noise_freq_points, reference, freqs,
                   temp_s_params, s_params>>

\* Classifications that know one of the two shapes only.
IsFrequencyRow_flat_only(len, r) == len = 2 * (r * r) + 1
IsFrequencyRow_row_only(len, r) == len = (r * 2) + 1

\* line 217-218: the row starts with a frequency
IsFrequencyRow(len, r) == len = (r * 2) + 1 \/ len = 2 * (r * r) + 1

\* lines 223-226: chunks(2) of an even number of values
Pairs(vals) == [i \in 1..(Len(vals) \div 2) |-> <<vals[2 * i - 1].v, vals[2 * i].v>>]

\* lines 211-228
DataRow ==
    /\ AtLine /\ Reaches(lowered)
    /\ \A tag \in Tags : ~StartsWith(Effective(lowered), tag)
    /\ LET chunked == Effective(lowered).toks
           opens == IsFrequencyRow(Len(chunked), rank)
           rest == IF opens THEN Tail(chunked) ELSE chunked
       IN  IF \E i \in 1..Len(chunked) : ~IsF64(chunked[i])
           THEN /\ Return("panic", "unwrap")
                /\ UNCHANGED <<pos, freqs, temp_s_params>>
           ELSE IF Len(rest) % 2 = 1
           THEN /\ Return("panic", "chunks")
                /\ freqs' = IF opens THEN Append(freqs, chunked[1].v) ELSE freqs
                /\ UNCHANGED <<pos, temp_s_params>>
           ELSE /\ freqs' = IF opens THEN Append(freqs, chunked[1].v) ELSE freqs
                /\ temp_s_params' = temp_s_params \o Pairs(rest)
                /\ Continue
    /\ UNCHANGED <<network, frequency, path, file,
                   rank, options_read, options, version, comments,
                   num_ports, num_freq_points, num_noise_freq_points,
                   reference, s_params>>

-----------------------------------------------------------------------------
(* The inputs: a path and a file. *)

SeqsUpTo(S, n) == UNION {[1..m -> S] : m \in 0..n}

Snp(r) == Some(<<"s", DigitChar(r), "p">>)

\* A data row of len numeric tokens; the tokens of a data file are numbered
\* in reading order, so every token of a file has a value of its own.
Row(start, len) == L([i \in 1..len |-> Num(start + i - 1)])

RECURSIVE RowsFrom(_, _)
RowsFrom(lens, start) ==
    IF lens = <<>> THEN <<>>
    ELSE <<Row(start, Head(lens))>> \o RowsFrom(Tail(lens), start + Head(lens))

RowsFile(lens) == RowsFrom(lens, 1)

\* Row lengths around the two frequency-row shapes of rank r.
RowLens(r) == {1, 2, 3, 2 * r, 2 * r + 1, 2 * r + 2, 2 * r * r, 2 * r * r + 1}

DataInputs ==
    UNION {{[path |-> Snp(r), file |-> RowsFile(lens)] :
                lens \in SeqsUpTo(RowLens(r), MaxRows)} : r \in 1..MaxRank}

\* The row lengths of n records of rank r, one matrix row per line or the
\* whole matrix on the line of the frequency.
RECURSIVE Repeat(_, _)
Repeat(seq, n) == IF n = 0 THEN <<>> ELSE seq \o Repeat(seq, n - 1)

SplitLens(n, r) == Repeat(<<2 * r + 1>> \o [i \in 1..(r - 1) |-> 2 * r], n)
FlatLens(n, r) == Repeat(<<2 * r * r + 1>>, n)

RecordInputs ==
    UNION {{[path |-> Snp(r), file |-> RowsFile(lens)] :
                lens \in UNION {{SplitLens(n, r), FlatLens(n, r)} :
                                   n \in 0..MaxRecs}} : r \in 1..(MaxRank + 1)}

\* Option lines with one unit, one parameter kind and one format token in
\* every order, alone or with "r 75.0" (kept together) at every place.
Units == {"hz", "mhz"}
Kinds == {"y", "h"}
Formats == {"ri", "db"}

InsertAt(seq, i, block) ==
    SubSeq(seq, 1, i) \o block \o SubSeq(seq, i + 1, Len(seq))

Arranged(three, p) == [i \in 1..3 |-> W(three[p[i]])]

PermutedOptionLines ==
    {L(<<W("#")>> \o (IF rpos = 0 THEN Arranged(<<u, k, f>>, p)
                       ELSE InsertAt(Arranged(<<u, k, f>>, p), rpos - 1,
                                     <<W("r"), Num(75000)>>))) :
        u \in Units, k \in Kinds, f \in Formats,
        p \in Permutations(1..3), rpos \in 0..4}

OptA == L(<<W("#"), W("mhz"), W("y"), W("ri"), W("r"), Num(75000)>>)
OptB == L(<<W("#"), W("hz")>>)
OptC == L(<<W("#"), U("ghz"), U("s"), U("ma"), U("r"), Num(50000)>>)
OptR == L(<<W("#"), W("mhz"), W("s"), W("ma"), W("r"), Num(15063)>>)
OptNoR == L(<<W("#"), W("mhz"), W("s"), W("ma")>>)
OptCommented == LC(<<W("#"), W("khz")>>, <<W("c3")>>)
OptGlued == LG(<<W("#"), W("mhz"), W("y"), W("ri")>>, FALSE)
OptUnknown == L(<<W("#"), W("q"), W("zz"), W("thz"), W("z")>>)
OptBadUnit == L(<<W("#"), W("xhz")>>)
OptRLast == L(<<W("#"), W("db"), W("r")>>)
OptRWord == L(<<W("#"), W("r"), W("zz")>>)

Blank == L(<<>>)
Comment == LC(<<>>, <<U("c1")>>)
Data1 == Row(1, 3)
Data1Commented == LC(Data1.toks, <<W("c2")>>)
Data1TwoBangs == LC(Data1.toks, <<W("c1"), W("c2")>>)
Data1Word == L(<<Num(1), W("foo"), Num(2)>>)
TwoValues == L(<<Num(50000), Num(75000)>>)
SixValues == L([i \in 1..6 |-> Num(15063)])

EndLine == L(<<W("[end]")>>)
EndCommented == LC(<<W("[end]")>>, <<W("c4")>>)
VersionCommented == LC(<<W("[version]"), W("2.0")>>, <<W("c5")>>)

OptionInputs ==
    {[path |-> Snp(1), file |-> <<l>>] : l \in PermutedOptionLines}
    \cup {[path |-> Snp(1), file |-> f] :
            f \in SeqsUpTo({OptA, OptB, OptC, OptCommented, Data1, Comment},
                          MaxOptLines)}

ReferenceInputs ==
    {[path |-> Some(<<"s", "6", "p">>), file |-> f] :
        f \in SeqsUpTo({OptR, OptNoR, L(<<W("[reference]")>>), SixValues,
                        TwoValues, L(<<U("[version]"), W("2.0")>>)},
                       MaxRefLines)}

MixedLines ==
    {Blank, Comment, Data1, Data1Commented, Data1TwoBangs, Data1Word,
     TwoValues, OptA, OptCommented, OptGlued, OptUnknown, OptBadUnit,
     OptRLast, OptRWord,
     L(<<W("[version]"), W("2.0")>>), L(<<W("[version]"), W("1.0")>>),
     L(<<W("[reference]")>>),
     L(<<W("[reference]"), Num(50000), Num(75000)>>),
     L(<<W("[number of ports]"), Num(1)>>),
     LG(<<W("[number of ports]"), Num(1)>>, TRUE),
     L(<<W("[number of frequencies]"), Num(2)>>),
     LG(<<W("[number of frequencies]"), Num(2)>>, TRUE),
     L(<<W("[number of noise frequencies]"), W("x")>>),
     LG(<<W("[number of noise frequencies]"), Num(0)>>, TRUE),
     L(<<W("[network data]")>>), L(<<W("[end]")>>)}

MixedInputs ==
    {[path |-> Snp(1), file |-> f] : f \in SeqsUpTo(MixedLines, MaxLines)}

\* Files in which comments, an option line and [end] meet in every order.
PhaseLines ==
    {OptB, OptCommented, Data1, Data1Commented, EndLine, EndCommented,
     VersionCommented, Comment}

PhaseInputs ==
    {[path |-> Snp(1), file |-> f] : f \in SeqsUpTo(PhaseLines, MaxPhaseLines)}

Extensions ==
    {[some |-> FALSE, val |-> <<>>], Some(<<>>), Snp(1), Snp(2),
     Some(<<"S", "2", "P">>), Some(<<"S", "4", "P">>), Some(<<"s", "4", "p">>),
     Some(<<"s", "2", "P">>), Some(<<"s", "0", "p">>),
     Some(<<"s", "1", "0", "p">>), Some(<<"s", "+", "2", "p">>),
     Some(<<"s", "s", "2", "p", "p">>), Some(<<"s", "p">>),
     Some(<<"s", "x", "p">>), Some(<<"t", "s">>), Some(<<"T", "S">>),
     Some(<<"t", "x", "t">>), Some(<<"s", "2">>), Some(<<"2", "p">>)}

ExtensionInputs ==
    {[path |-> e, file |-> f] :
        e \in Extensions,
        f \in {<<>>, <<Row(1, 1)>>, <<Row(1, 3)>>, <<Row(1, 9)>>,
               <<OptA, Row(1, 5), Row(6, 4)>>}}

Inputs ==
    DataInputs \cup RecordInputs \cup OptionInputs \cup ReferenceInputs
    \cup MixedInputs \cup PhaseInputs \cup ExtensionInputs

-----------------------------------------------------------------------------
(* Frequency (src/src/frequency.rs) and Network (src/src/network.rs).      *)
(* A sample is [num, den, e], the value (num / den) * 10^e: the units      *)
(* scale by powers of ten that no machine integer of the model holds.      *)

MaxStart == 3     \* start and stop of Frequency::new, samples of From
MaxPoints == 3    \* npoints of Frequency::new, length of the list of From

Val(n) == [num |-> n, den |-> 1, e |-> 0]

\* Two samples are the same number.  Mantissas stay far below 1000, the
\* smallest ratio of two different units, so different exponents give the
\* same number only for zero.
Same(x, y) ==
    IF x.e = y.e THEN x.num * y.den = y.num * x.den
                 ELSE x.num = 0 /\ y.num = 0

FreqUnits == {"Hz", "KHz", "MHz", "GHz", "THz"}

\* the power of ten of a unit, frequency.rs lines 36-42
Exp10(unit) ==
    CASE unit = "Hz" -> 0
      [] unit = "KHz" -> 3
      [] unit = "MHz" -> 6
      [] unit = "GHz" -> 9
      [] unit = "THz" -> 12

\* unit * rhs
mul(unit, rhs) == [rhs EXCEPT !.e = @ + Exp10(unit)]

\* Array::linspace(a, b, n): n evenly spaced samples from a to b, the step
\* is 0 for n = 1.  a and b are whole numbers of the same unit.
linspace(a, b, n) ==
    [i \in 1..n |->
        IF n > 1 THEN [num |-> a.num * (n - 1) + (i - 1) * (b.num - a.num),
                       den |-> n - 1, e |-> a.e]
                 ELSE a]

NoFrequency ==
    [st |-> "none", f |-> <<>>, start |-> Val(0), stop |-> Val(0),
     npoints |-> 0]

\* Frequency::new(start, stop, npoints, unit), lines 68-84
Frequency_new(start, stop, npoints, unit) ==
    LET n == IF npoints.some THEN npoints.val ELSE 0
        u == IF unit.some THEN unit.val ELSE "Hz"
    IN  [st |-> "Ok",
         f |-> linspace(mul(u, Val(start)), mul(u, Val(stop)), n),
         start |-> Val(start), stop |-> Val(stop), npoints |-> n]

\* Frequency::from(freqs), lines 56-64: freqs[0] and last().unwrap() panic
\* on the empty list.
Frequency_from(list) ==
    IF list = <<>>
    THEN [NoFrequency EXCEPT !.st = "panic"]
    ELSE [st |-> "Ok", f |-> [i \in 1..Len(list) |-> Val(list[i])],
          start |-> Val(list[1]), stop |-> Val(list[Len(list)]),
          npoints |-> Len(list)]

NoCall == [fn |-> "none"]

NoNetwork ==
    [st |-> "none", f |-> NoFrequency,
     s |-> [shape |-> <<0, 0, 0>>, data |-> <<>>],
     z0 |-> [shape |-> <<0, 0>>, data |-> <<>>]]

\* Complex::new(50., 0.) in thousandths, the fill value of z0
FillResistance == 50000

\* Array::from_elem((rows, cols), elem)
from_elem(rows, cols, elem) ==
    [shape |-> <<rows, cols>>, data |-> [i \in 1..(rows * cols) |-> elem]]

\* Network::from_snp(file), lines 21-28, once Touchstone::new has ended:
\* `?` hands an Err on, a panic of Touchstone::new or of Frequency::from
\* unwinds through the call.
FromSnp ==
    /\ pc = "done" /\ network.st = "none"
    /\ network' =
         IF result = "Ok"
         THEN LET f == Frequency_from(freqs) IN
              IF f.st = "panic"
              THEN [NoNetwork EXCEPT !.st = "panic"]
              ELSE [st |-> "Ok", f |-> f, s |-> s_params,
                    z0 |-> from_elem(1, Len(freqs), <<FillResistance, 0>>)]
         ELSE [NoNetwork EXCEPT !.st = result]
    /\ UNCHANGED <<frequency, path, file, pc, pos, result, exit, fields>>

\* The calls of the two constructors of Frequency.
FrequencyCalls ==
    {[fn |-> "new", start |-> a, stop |-> b, npoints |-> n, unit |-> u] :
        a \in 0..MaxStart, b \in 0..MaxStart,
        n \in {NoneInt} \cup {Some(k) : k \in 0..MaxPoints},
        u \in {[some |-> FALSE, val |-> "Hz"]} \cup {Some(x) : x \in FreqUnits}}
    \cup {[fn |-> "from", list |-> l] : l \in SeqsUpTo(0..MaxStart, MaxPoints)}

FrequencyNew ==
    /\ frequency.call.fn = "new" /\ frequency.val.st = "none"
    /\ frequency' =
         [frequency EXCEPT !.val =
            Frequency_new(frequency.call.start, frequency.call.stop,
                          frequency.call.npoints, frequency.call.unit)]
    /\ UNCHANGED <<network, path, file, pc, pos, result, exit, fields>>

FrequencyFrom ==
    /\ frequency.call.fn = "from" /\ frequency.val.st = "none"
    /\ frequency' =
         [frequency EXCEPT !.val = Frequency_from(frequency.call.list)]
    /\ UNCHANGED <<network, path, file, pc, pos, result, exit, fields>>

-----------------------------------------------------------------------------
(* The specification. *)

Init ==
    /\ \E inp \in Inputs : path = inp.path /\ file = inp.file
    /\ pc = "ext"
    /\ pos = 1
    /\ rank = 0
    /\ options_read = FALSE
    /\ options = DefaultOptions
    /\ version = "One"
    /\ comments = <<>>
    /\ num_ports = NoneInt
    /\ num_freq_points = NoneInt
    /\ num_noise_freq_points = NoneInt
    /\ reference = None
    /\ freqs = <<>>
    /\ temp_s_params = <<>>
    /\ s_params = [shape |-> <<0, 0, 0>>, data |-> <<>>]
    /\ result = "none"
    /\ exit = "none"
    /\ network = NoNetwork
    /\ frequency = [call |-> NoCall, val |-> NoFrequency]

Next ==
    \/ CheckExtension
    \/ EndOfFile
    \/ SkipBlank
    \/ HeaderComment
    \/ SkipComment
    \/ Version
    \/ Reference
    \/ NumberOfPorts
    \/ NumberOfFrequencies
    \/ NumberOfNoiseFrequencies
    \/ NetworkData
    \/ End
    \/ OptionLine
    \/ DataRow
    \/ Reshape
    \/ FromSnp

Spec == Init /\ [][Next]_vars

\* The constructors of Frequency called on their own, no file being read.
InitFrequency ==
    /\ path = Snp(1) /\ file = <<>>
    /\ pc = "idle"
    /\ pos = 1
    /\ rank = 0
    /\ options_read = FALSE
    /\ options = DefaultOptions
    /\ version = "One"
    /\ comments = <<>>
    /\ num_ports = NoneInt
    /\ num_freq_points = NoneInt
    /\ num_noise_freq_points = NoneInt
    /\ reference = None
    /\ freqs = <<>>
    /\ temp_s_params = <<>>
    /\ s_params = [shape |-> <<0, 0, 0>>, data |-> <<>>]
    /\ result = "none"
    /\ exit = "none"
    /\ network = NoNetwork
    /\ \E c \in FrequencyCalls : frequency = [call |-> c, val |-> NoFrequency]

NextFrequency ==
    \/ FrequencyNew
    \/ FrequencyFrom

SpecFrequency == InitFrequency /\ [][NextFrequency]_vars

-----------------------------------------------------------------------------
(* Properties of the reshape and of the data rows. *)

\* The call ended in lines 230-240, after the end of the input or [end].
AtEndOfInput ==
    \/ pos > Len(file)
    \/ /\ pos <= Len(file)
       /\ Reaches(lowered)
       /\ StartsWith(Effective(lowered), "[end]")

ReachedReshape == pc = "done" /\ exit \in {"return", "reshape"}

Count == Len(freqs) * rank * rank

\* C1: Touchstone::new returns a result exactly when, at the end of the
\* input or at [end], the number of accumulated complex values is
\* (number of frequencies) x rank x rank; the tensor then has the shape
\* (number of frequencies, rank, rank); otherwise the call fails with the
\* error of the reshape and no tensor is set.
C1_ReshapeDecides ==
    /\ ReachedReshape => AtEndOfInput
    /\ ReachedReshape /\ Len(temp_s_params) = Count =>
          /\ result = "Ok"
          /\ s_params.shape = <<Len(freqs), rank, rank>>
          /\ Len(s_params.data) = Count
    /\ ReachedReshape /\ Len(temp_s_params) # Count =>
          /\ result = "Err" /\ exit = "reshape"
          /\ s_params = [shape |-> <<0, 0, 0>>, data |-> <<>>]
    /\ result = "Ok" => ReachedReshape /\ Len(temp_s_params) = Count

C1_Witness ==
    /\ result = "Ok" /\ rank = 2 /\ Len(freqs) = 2
    /\ s_params.shape = <<2, 2, 2>> /\ Len(s_params.data) = 8

\* The file is plain data rows (no comment, every token numeric).
IsRow(line) ==
    /\ line.cmts = <<>> /\ line.toks # <<>>
    /\ \A i \in 1..Len(line.toks) : line.toks[i].w = "num"

AllRows == \A i \in 1..Len(file) : IsRow(file[i])

\* The extension is s<N>p, N in decimal digits; NameRank is N.
IsSnp(e) ==
    /\ Len(e) >= 3 /\ e[1] = "s" /\ e[Len(e)] = "p"
    /\ \A i \in 2..(Len(e) - 1) : IsDigit(e[i])

NameRank == DecimalVal(SubSeq(path.val, 2, Len(path.val) - 1))

\* Every line of the file is a row of 2r+1 numeric tokens, r the rank the
\* file name gives.
RowsOfOneMatrixRow ==
    /\ path.some /\ IsSnp(path.val)
    /\ AllRows
    /\ \A i \in 1..Len(file) : Len(file[i].toks) = 2 * NameRank + 1

\* C2 as stated: a file named .s<r>p of n rows of 2r+1 numeric tokens
\* parses to a tensor of shape (n, r, r).
C2_AsStated ==
    RowsOfOneMatrixRow /\ pc = "done" =>
        result = "Ok" /\ s_params.shape = <<Len(file), NameRank, NameRank>>

\* C2: a file named .s<r>p of n rows of 2r+1 numeric tokens parses to a
\* tensor of shape (n, r, r) when r <= 1 or n = 0; for r >= 2 and n >= 1
\* it holds n*r values where n*r*r are needed, and the reshape fails.
C2_RowsOfOneMatrixRow ==
    RowsOfOneMatrixRow /\ pc = "done" =>
        IF NameRank <= 1 \/ Len(file) = 0
        THEN /\ result = "Ok"
             /\ s_params.shape = <<Len(file), NameRank, NameRank>>
             /\ Len(freqs) = Len(file)
        ELSE result = "Err" /\ exit = "reshape"

C2_Witness ==
    /\ RowsOfOneMatrixRow /\ pc = "done" /\ result = "Ok"
    /\ NameRank = 1 /\ Len(file) = 2 /\ s_params.shape = <<2, 1, 1>>

\* The k-th of n records of rank r, written in either layout, has its
\* frequency at token RecordFreq(k, r) of the file and its j-th value pair
\* in the two tokens that follow the j-1 earlier pairs.
RecordFreq(k, r) == (k - 1) * (2 * r * r + 1) + 1

RecordFreqs(n, r) == [k \in 1..n |-> RecordFreq(k, r)]

RecordData(n, r) ==
    [m \in 1..(n * r * r) |->
        LET k == ((m - 1) \div (r * r)) + 1
            j == ((m - 1) % (r * r)) + 1
        IN  <<RecordFreq(k, r) + 2 * j - 1, RecordFreq(k, r) + 2 * j>>]

IsSplitFile(n, r) == path = Snp(r) /\ file = RowsFile(SplitLens(n, r))
IsFlatFile(n, r) == path = Snp(r) /\ file = RowsFile(FlatLens(n, r))

\* C3: for every rank r and number n of frequency records, the file that
\* writes each record as a row of 2r+1 tokens followed by r-1 rows of 2r
\* tokens and the file that writes it as one row of 2*r*r+1 tokens both
\* parse successfully, to the same frequency list and the same tensor:
\* the frequencies and the value pairs of the records, in order.
C3_SplitEqualsFlat ==
    \A r \in 1..(MaxRank + 1), n \in 0..MaxRecs :
        (IsSplitFile(n, r) \/ IsFlatFile(n, r)) /\ pc = "done" =>
            /\ result = "Ok"
            /\ freqs = RecordFreqs(n, r)
            /\ s_params = [shape |-> <<n, r, r>>, data |-> RecordData(n, r)]

C3_Witness ==
    /\ IsSplitFile(2, 2) /\ ~IsFlatFile(2, 2)
    /\ pc = "done" /\ result = "Ok"
    /\ s_params.data = RecordData(2, 2)

\* Row i of a file of data rows opens a frequency record of rank r.
Opens(i, r) == IsFrequencyRow(Len(file[i].toks), r)

\* The complex values the rows up to row i put into the record that the
\* last frequency row up to row i opened (0 when there is none).
RECURSIVE ValuesInOpenRecord(_, _)
ValuesInOpenRecord(i, r) ==
    IF i = 0 THEN 0
    ELSE IF Opens(i, r) THEN (Len(file[i].toks) - 1) \div 2
    ELSE IF \E h \in 1..(i - 1) : Opens(h, r)
         THEN ValuesInOpenRecord(i - 1, r) + Len(file[i].toks) \div 2
         ELSE 0

\* Row i has 2r tokens and continues no open record: no frequency row
\* precedes it, or the matrix of the last one is complete already.
Orphan(i, r) ==
    /\ Len(file[i].toks) = 2 * r
    /\ \/ ~ \E h \in 1..(i - 1) : Opens(h, r)
       \/ ValuesInOpenRecord(i - 1, r) >= r * r

\* C4 as stated: when some row of 2r tokens continues no open frequency
\* record, Touchstone::new fails; it never returns a tensor.
C4_OrphanRowFails ==
    (AllRows /\ pc = "done" /\ \E i \in 1..Len(file) : Orphan(i, rank)) =>
        result # "Ok"

\* The tokens of the file are numbered in reading order.
IsNumberedFile == file = RowsFile([i \in 1..Len(file) |-> Len(file[i].toks)])

RECURSIVE OpeningTokens(_, _)
OpeningTokens(i, r) ==
    IF i = 0 THEN <<>>
    ELSE OpeningTokens(i - 1, r)
         \o (IF Opens(i, r) THEN <<file[i].toks[1].v>> ELSE <<>>)

\* C5 as stated: after a successful parse the frequency list is the leading
\* tokens of the rows classified as frequency rows, in file order, and
\* tensor[k][i][j] is the (i*r+j)-th consecutive token pair after the k-th
\* frequency token, stored as written.
C5_TensorFollowsFrequency ==
    (AllRows /\ IsNumberedFile /\ file # <<>> /\ result = "Ok") =>
        /\ freqs = OpeningTokens(Len(file), rank)
        /\ \A k \in 1..Len(freqs), m \in 0..(rank * rank - 1) :
              s_params.data[(k - 1) * rank * rank + m + 1]
                  = <<freqs[k] + 2 * m + 1, freqs[k] + 2 * m + 2>>

-----------------------------------------------------------------------------
(* Properties of the options. *)

\* Line i is decoded as an option line when the loop reaches it with the
\* flag options_read at `read`.
DecodedAsOptions(i, read) ==
    LET l == to_lowercase(file[i]) IN
    /\ ~is_blank(l)
    /\ has_bang(l) => read /\ l.toks # <<>>
    /\ StartsWith(Effective(l), "#")

\* The first line that is decoded as an option line (0: none).  Until one
\* is decoded the flag is FALSE.
FirstOptionLine ==
    IF \E i \in 1..Len(file) : DecodedAsOptions(i, FALSE)
    THEN CHOOSE i \in 1..Len(file) :
            /\ DecodedAsOptions(i, FALSE)
            /\ \A h \in 1..(i - 1) : ~DecodedAsOptions(h, FALSE)
    ELSE 0

\* C6 as stated: in every state of a parse the options are the defaults
\* until the first option line is decoded, and from then on they are the
\* decoding of that first line: later lines that begin with # change nothing.
C6_OptionsSetOnce ==
    result \in {"none", "Ok"} =>
        IF options_read
        THEN /\ FirstOptionLine # 0
             /\ options = parse_options_line(
                              Effective(to_lowercase(file[FirstOptionLine])),
                              DefaultOptions).o
        ELSE options = DefaultOptions

IsUnitToken(t) == t.w \in {"hz", "khz", "mhz", "ghz", "thz"}
IsKindToken(t) == t.w \in {"s", "y", "z", "g", "h"}
IsFormatToken(t) == t.w \in {"db", "ma", "ri"}
IsCategoryToken(t) == IsUnitToken(t) \/ IsKindToken(t) \/ IsFormatToken(t)

\* An option line of the marker, one unit token, one parameter-kind token,
\* one format token and, at most, "r <number>" kept together.
OneOfEachCategory(toks) ==
    /\ Len(toks) >= 4 /\ toks[1].w = "#"
    /\ Cardinality({i \in 2..Len(toks) : IsUnitToken(toks[i])}) = 1
    /\ Cardinality({i \in 2..Len(toks) : IsKindToken(toks[i])}) = 1
    /\ Cardinality({i \in 2..Len(toks) : IsFormatToken(toks[i])}) = 1
    /\ \A i \in 2..Len(toks) :
          \/ IsCategoryToken(toks[i])
          \/ toks[i].w = "r" /\ i < Len(toks) /\ toks[i + 1].w = "num"
          \/ toks[i].w = "num" /\ toks[i - 1].w = "r"

\* The three category tokens of toks put at their places in the order p.
Permuted(toks, p) ==
    LET cs == {i \in 2..Len(toks) : IsCategoryToken(toks[i])}
        lo == CHOOSE i \in cs : \A j \in cs : i <= j
        hi == CHOOSE i \in cs : \A j \in cs : i >= j
        mid == CHOOSE i \in cs : i # lo /\ i # hi
        c == <<lo, mid, hi>>
    IN  [i \in 1..Len(toks) |->
            IF i \in cs THEN toks[c[p[CHOOSE j \in 1..3 : c[j] = i]]]
            ELSE toks[i]]

\* C7: decoding an option line that holds one unit, one parameter-kind and
\* one format token (the marker a token of its own, "r <number>" kept
\* together) gives what decoding every permutation of these three tokens
\* gives: the options the program ends the line with.
C7_OrderIndependent ==
    [][ (/\ Dispatch("#")
         /\ ~Effective(lowered).glue
         /\ OneOfEachCategory(Effective(lowered).toks))
        => \A p \in Permutations(1..3) :
              parse_options_line(
                  [Effective(lowered) EXCEPT
                      !.toks = Permuted(Effective(lowered).toks, p)],
                  options)
              = [st |-> "Ok", o |-> options'] ]_vars

C7_Witness ==
    /\ pc = "loop" /\ pos = 2 /\ options_read
    /\ OneOfEachCategory(file[1].toks)
    /\ Len(file[1].toks) = 6
    /\ IsFormatToken(file[1].toks[2]) /\ IsUnitToken(file[1].toks[6])
    /\ options = [unit |-> "Hz", param_type |-> "H",
                  param_format |-> "DBAngle", resistance |-> 75000]

\* The options after the first n lines when only the lines decoded as
\* option lines count, and the flag options_read after them.
RECURSIVE OptionsFromLines(_)
OptionsFromLines(n) ==
    IF n = 0 THEN [o |-> DefaultOptions, read |-> FALSE]
    ELSE LET before == OptionsFromLines(n - 1) IN
         IF DecodedAsOptions(n, before.read)
         THEN [o |-> parse_options_line(Effective(to_lowercase(file[n])),
                                        before.o).o,
               read |-> TRUE]
         ELSE before

\* The file of an .s6p path holds one [reference] directive, alone on its
\* line, and the next line is 15.063 six times; the parse completed.
SixReferences == [i \in 1..6 |-> 15063]

ReferenceScenario ==
    /\ path = Some(<<"s", "6", "p">>)
    /\ result = "Ok"
    /\ \E i \in 1..(Len(file) - 1) :
          /\ to_lowercase(file[i]) = L(<<W("[reference]")>>)
          /\ file[i + 1] = SixValues
          /\ \A h \in 1..Len(file) :
                h # i => ~StartsWith(to_lowercase(file[h]), "[reference]")

\* C8 as stated: in that scenario the reference resistance is 15.063 and
\* the reference list is six entries of 15.063.
C8_AsStated ==
    ReferenceScenario =>
        options.resistance = 15063 /\ reference = Some(SixReferences)

\* C8: in that scenario the reference list is six entries of 15.063, and
\* the options are what the option lines read so far decode to: the
\* reference resistance is the last "r <value>" of an option line (50.0
\* without one), which the [reference] directive does not change.
C8_ReferenceList ==
    ReferenceScenario =>
        /\ reference = Some(SixReferences)
        /\ options = OptionsFromLines(pos - 1).o

C8_Witness ==
    /\ ReferenceScenario
    /\ file[1] = OptR
    /\ reference = Some(SixReferences) /\ options.resistance = 15063

-----------------------------------------------------------------------------
(* Properties of the extension. *)

LowerChar(c) ==
    CASE c = "S" -> "s" [] c = "P" -> "p" [] c = "T" -> "t" [] OTHER -> c

LowerExt(e) == [i \in 1..Len(e) |-> LowerChar(e[i])]

\* The extension matches s<N>p, whatever the case of its letters.
MatchesSnp == path.some /\ IsSnp(LowerExt(path.val))

\* C9 as stated: for a path whose extension does not match s<N>p the call
\* fails before any line is processed, with NotImplemented for "ts" and
\* with UnsupportedFormat otherwise; it returns no result.
C9_OnlySnpParses ==
    ~MatchesSnp =>
        /\ pos = 1 /\ pc \in {"ext", "done"}
        /\ result # "Ok"
        /\ pc = "done" =>
              IF path.some /\ path.val = <<"t", "s">>
              THEN exit = "unimplemented"
              ELSE result = "Err" /\ exit = "extension"

\* C10 as stated: for an extension that matches s<N>p case-insensitively
\* rank is N once the extension is inspected, before the first line is
\* processed, and in every later state of the parse.
C10_RankFromName ==
    (MatchesSnp /\ pc # "ext") =>
        /\ rank = NameRank
        /\ exit # "extension"

-----------------------------------------------------------------------------
(* Properties of Network and Frequency. *)

\* C11: the Network built by Network::from_snp has a reference-impedance row
\* with one entry per frequency sample, and every entry is complex(R, 0)
\* with R the reference resistance of the parse's options.
C11_ReferenceRow ==
    network.st = "Ok" =>
        /\ network.z0.shape = <<1, Len(network.f.f)>>
        /\ Len(network.z0.data) = Len(network.f.f)
        /\ \A i \in 1..Len(network.z0.data) :
               network.z0.data[i] = <<options.resistance, 0>>

\* C12: every non-empty Frequency value, built by Frequency::new or adopted
\* from a list of samples, has start equal to its first sample, stop equal
\* to its last sample and npoints equal to the number of samples.
C12_CachedEnds ==
    LET v == frequency.val IN
    (v.st = "Ok" /\ Len(v.f) > 0) =>
        /\ Same(v.start, v.f[1])
        /\ Same(v.stop, v.f[Len(v.f)])
        /\ v.npoints = Len(v.f)

\* C13: building a Network from a file whose parse completes with an empty
\* frequency list ends in an error value: no Network is returned and the
\* call does not crash.
C13_EmptySeriesIsError ==
    (network.st # "none" /\ result = "Ok" /\ freqs = <<>>) =>
        network.st = "Err"

-----------------------------------------------------------------------------
(* Properties of the directives. *)

\* C14: a [reference] line with inline values after the tag makes those
\* values the reference list at once and consumes no further line; a
\* [reference] line with nothing after the tag consumes exactly one more
\* line, parses it as the list, and the loop goes on after that line.
C14_ReferenceInlineOrNextLine ==
    [][Dispatch("[reference]") =>
         LET inline == Tail(Effective(lowered).toks)
             next == IF pos + 1 <= Len(file) THEN RawToks(file[pos + 1])
                     ELSE <<>>
         IN  IF inline # <<>>
             THEN (\A i \in 1..Len(inline) : IsF64(inline[i])) =>
                      /\ reference' = Some([i \in 1..Len(inline) |-> inline[i].v])
                      /\ pos' = pos + 1
                      /\ pc' = "loop"
             ELSE parse_reference(next).ok =>
                      /\ reference' = Some(parse_reference(next).val)
                      /\ pos' = pos + 2
                      /\ pc' = "loop"]_vars

\* What C15 says of one count directive: the line is consumed without
\* error, a non-negative integer after the tag is stored in the field and
\* any other text leaves the field without a value.
CountDirective(tag, after) ==
    Dispatch(tag) =>
        LET t == Effective(lowered).toks IN
        /\ pos' = pos + 1
        /\ pc' = "loop"
        /\ IF Len(t) = 2 /\ IsF64(t[2]) /\ t[2].v >= 0
           THEN after = Some(t[2].v)
           ELSE ~after.some

\* C15: after `[number of ports] N`, `[number of frequencies] N` or
\* `[number of noise frequencies] N` with N a non-negative integer the
\* field num_ports, num_freq_points or num_noise_freq_points holds N; a
\* non-integer text leaves the field unset and the parse continues.
C15_CountDirectives ==
    [][/\ CountDirective("[number of ports]", num_ports')
       /\ CountDirective("[number of frequencies]", num_freq_points')
       /\ CountDirective("[number of noise frequencies]",
                         num_noise_freq_points')]_vars

-----------------------------------------------------------------------------
(* Properties of the comments. *)

\* C16: once the option line has been read, a line that is only a comment
\* changes nothing, and any other line with a '!' is processed as its prefix
\* before the first '!': no text after a '!' reaches the tokens, and a data
\* row has the effect of the numbers of its prefix.
C16_CommentRemoved ==
    [][(AtLine /\ options_read /\ has_bang(lowered)) =>
         LET prefix == lowered.toks
             opens == IsFrequencyRow(Len(prefix), rank)
             rest == IF opens THEN Tail(prefix) ELSE prefix
         IN  IF prefix = <<>>
             THEN pos' = pos + 1 /\ pc' = "loop" /\ UNCHANGED fields
             ELSE /\ Effective(lowered).toks = prefix
                  /\ ((\A i \in 1..Len(prefix) : IsF64(prefix[i]))
                        /\ Len(rest) % 2 = 0) =>
                       /\ freqs' = IF opens THEN Append(freqs, prefix[1].v)
                                   ELSE freqs
                       /\ temp_s_params' = temp_s_params \o Pairs(rest)
                       /\ pos' = pos + 1
                       /\ pc' = "loop"]_vars

\* C17: before the option line has been read, every non-blank line with a
\* '!' appends exactly one entry to the header comments and changes nothing
\* else, whatever stands before the '!': the frequency list, the buffer,
\* the options, the version, the reference list and the phase stay.
C17_HeaderCommentOnly ==
    [][(AtLine /\ ~options_read /\ ~is_blank(lowered) /\ has_bang(lowered)) =>
         /\ comments' = Append(comments, last_comment(lowered))
         /\ UNCHANGED <<freqs, temp_s_params, options, version, reference,
                        options_read, rank, num_ports, num_freq_points,
                        num_noise_freq_points, s_params>>
         /\ pos' = pos + 1
         /\ pc' = "loop"]_vars

\* A data row, an [end] directive and an option line, each with a comment,
\* have been read as three header comments and nothing else.
C17_Witness ==
    /\ file = <<Data1Commented, EndCommented, OptCommented>>
    /\ pos = 4 /\ pc = "loop"
    /\ comments = <<W("c2"), W("c4"), W("c3")>>
    /\ ~options_read /\ options = DefaultOptions /\ freqs = <<>>

-----------------------------------------------------------------------------
(* Touchstone::new as a function of the path and of the lines, to compare  *)
(* the call on one input with the call on another.  A call is the record   *)
(* of the variables of the call.                                           *)

Fresh ==
    [pc |-> "loop", pos |-> 1, rank |-> 0, options_read |-> FALSE,
     options |-> DefaultOptions, version |-> "One", comments |-> <<>>,
     num_ports |-> NoneInt, num_freq_points |-> NoneInt,
     num_noise_freq_points |-> NoneInt, reference |-> None, freqs |-> <<>>,
     temp_s_params |-> <<>>,
     s_params |-> [shape |-> <<0, 0, 0>>, data |-> <<>>],
     result |-> "none", exit |-> "none"]

\* lines 230-240
reshape(st) ==
    IF from_shape_vec_ok(Len(st.freqs), st.rank, Len(st.temp_s_params))
    THEN [st EXCEPT !.pc = "done", !.result = "Ok", !.exit = "return",
                    !.s_params = [shape |-> <<Len(st.freqs), st.rank, st.rank>>,
                                  data |-> st.temp_s_params]]
    ELSE [st EXCEPT !.pc = "done", !.result = "Err", !.exit = "reshape"]

\* lines 156-228: one pass of the loop over the line f[st.pos]
one_line(f, st) ==
    LET line == to_lowercase(f[st.pos])
        eff == Effective(line)
        toks == eff.toks
        go == [st EXCEPT !.pos = @ + 1]
        stop(res, at) == [st EXCEPT !.pc = "done", !.result = res, !.exit = at]
        alone == Len(toks) = 1
        list == IF alone
                THEN IF st.pos + 1 <= Len(f) THEN RawToks(f[st.pos + 1])
                     ELSE <<>>
                ELSE toks
        o == parse_options_line(eff, st.options)
        opens == IsFrequencyRow(Len(toks), st.rank)
        rest == IF opens THEN Tail(toks) ELSE toks
        fs == IF opens THEN Append(st.freqs, toks[1].v) ELSE st.freqs
    IN  IF is_blank(line) THEN go
        ELSE IF has_bang(line) /\ ~st.options_read
        THEN [go EXCEPT !.comments = Append(@, last_comment(line))]
        ELSE IF has_bang(line) /\ line.toks = <<>> THEN go
        ELSE IF StartsWith(eff, "[version]")
        THEN [go EXCEPT !.version =
                 IF Tail(toks) = <<W("2.0")>> THEN "Two" ELSE @]
        ELSE IF StartsWith(eff, "[reference]")
        THEN IF parse_reference(list).ok
             THEN [st EXCEPT !.reference = Some(parse_reference(list).val),
                             !.pos = IF alone THEN @ + 2 ELSE @ + 1]
             ELSE stop("panic", "reference")
        ELSE IF StartsWith(eff, "[number of ports]")
        THEN [go EXCEPT !.num_ports = parse_count(eff)]
        ELSE IF StartsWith(eff, "[number of frequencies]")
        THEN [go EXCEPT !.num_freq_points = parse_count(eff)]
        ELSE IF StartsWith(eff, "[number of noise frequencies]")
        THEN [go EXCEPT !.num_noise_freq_points = parse_count(eff)]
        ELSE IF StartsWith(eff, "[network data]") THEN go
        ELSE IF StartsWith(eff, "[end]") THEN [st EXCEPT !.pc = "reshape"]
        ELSE IF StartsWith(eff, "#")
        THEN IF o.st = "Ok"
             THEN [go EXCEPT !.options = o.o, !.options_read = TRUE]
             ELSE [stop(o.st, "options") EXCEPT !.options = o.o]
        ELSE IF \E i \in 1..Len(toks) : ~IsF64(toks[i])
        THEN stop("panic", "unwrap")
        ELSE IF Len(rest) % 2 = 1
        THEN [stop("panic", "chunks") EXCEPT !.freqs = fs]
        ELSE [go EXCEPT !.freqs = fs,
                        !.temp_s_params = @ \o Pairs(rest)]

\* lines 147-240: the loop, then the reshape
RECURSIVE read_lines(_, _)
read_lines(f, st) ==
    IF st.pc = "done" THEN st
    ELSE IF st.pc = "reshape" \/ st.pos > Len(f) THEN reshape(st)
    ELSE read_lines(f, one_line(f, st))

\* lines 118-241
Touchstone_new(p, f) ==
    LET x == ExtensionRank(p) IN
    CASE x.kind = "rank" -> read_lines(f, [Fresh EXCEPT !.rank = x.val])
      [] x.kind = "keep" -> read_lines(f, Fresh)
      [] x.kind = "Err" ->
           [Fresh EXCEPT !.pc = "done", !.result = "Err", !.exit = "extension"]
      [] x.kind = "unimplemented" ->
           [Fresh EXCEPT !.pc = "done", !.result = "panic",
                         !.exit = "unimplemented"]

\* What a call leaves: the result or failure and every field.
Outcome(st) ==
    [result |-> st.result, exit |-> st.exit, rank |-> st.rank,
     options |-> st.options, version |-> st.version,
     comments |-> st.comments, num_ports |-> st.num_ports,
     num_freq_points |-> st.num_freq_points,
     num_noise_freq_points |-> st.num_noise_freq_points,
     reference |-> st.reference, freqs |-> st.freqs,
     s_params |-> st.s_params]

\* The outcome of the call the variables describe.
CallOutcome ==
    [result |-> result, exit |-> exit, rank |-> rank, options |-> options,
     version |-> version, comments |-> comments, num_ports |-> num_ports,
     num_freq_points |-> num_freq_points,
     num_noise_freq_points |-> num_noise_freq_points,
     reference |-> reference, freqs |-> freqs, s_params |-> s_params]

-----------------------------------------------------------------------------
(* Properties of [end], of the option `r` and of the two phases. *)

\* The input cut off right after its first line that begins with [end].
CutAtEndText(f) ==
    LET ends == {i \in 1..Len(f) : StartsWith(to_lowercase(f[i]), "[end]")}
    IN  IF ends = {} THEN f
        ELSE SubSeq(f, 1, CHOOSE i \in ends : \A k \in ends : i <= k)

\* The input cut off right after the line at which the loop meets the [end]
\* directive, the whole input if it meets none.
CutAtEndDirective(p, f) ==
    LET st == Touchstone_new(p, f)
    IN  IF st.exit \in {"return", "reshape"} /\ st.pos <= Len(f)
        THEN SubSeq(f, 1, st.pos)
        ELSE f

RWithoutValue(split_line) ==
    \E i \in 1..Len(split_line) :
        /\ split_line[i].w = "r"
        /\ i = Len(split_line) \/ ~IsF64(split_line[i + 1])

\* C19: an option line whose token `r` is the last token or is followed by
\* a token that is not a number ends the parse with an error value that is
\* returned to the caller: no crash and no result.
C19_RWithoutValueIsError ==
    [][(Dispatch("#")
          /\ RWithoutValue(Tail(split_whitespace(Effective(lowered))))) =>
         /\ pc' = "done"
         /\ result' = "Err"
         /\ exit' = "options"]_vars

\* C20: the phase only moves forward.  The call starts with the flag
\* options_read down; the flag goes up exactly in a step that decodes an
\* option line successfully; once up it stays up, and from then on no line
\* is stored as a header comment.
C20_PhaseForward ==
    [][/\ pc = "ext" => ~options_read
       /\ options_read => (options_read' /\ comments' = comments)
       /\ (~options_read /\ options_read') <=>
            (/\ ~options_read
             /\ Dispatch("#")
             /\ parse_options_line(Effective(lowered), options).st = "Ok")]_vars

\* After the option line a comment line and a second, commented option line
\* have been read: the flag is up and no header comment was stored.
C20_Witness ==
    /\ file = <<OptB, Comment, OptCommented>>
    /\ pos = 4 /\ pc = "loop"
    /\ options_read /\ comments = <<>>
    /\ options.unit = "KHz"

====
